---- MODULE Spec2Model ----
(***************************************************************************)
(* Model of SimpleBacktester.run_backtest (src/analysis/backtests.py), of  *)
(* calculate_sma (src/analysis/technical_indicators.py) and of the cached  *)
(* CryptoDataFetcher.fetch_ohlcv (src/data/fetch_data.py with              *)
(* src/utils/helpers.py).  Each has a specification of its own over the    *)
(* shared state; the state of the other two stays at its initial value.    *)
(*                                                                         *)
(* The simulation walks the bars of a price frame, trading on the signal   *)
(* of the previous bar at the close of the current one.  Python floats are *)
(* modelled as exact rationals <<numerator, denominator>> in lowest terms  *)
(* with a positive denominator; every input value used below (1/2, small   *)
(* integers) is exactly representable in binary floating point.            *)
(* Bars are indexed from 0 as in the source; the timestamp of bar k is     *)
(* modelled by k (the frame's index is increasing and unique).             *)
(***************************************************************************)
EXTENDS Integers, Sequences, FiniteSets, TLC

VARIABLES
    close,            \* df['close']: function 0..len(df)-1 -> price
    signal,           \* df['signal'] = signal_func(df): 0..len(df)-1 -> {-1,0,1}
    initial_balance,  \* self.initial_balance
    commission,       \* self.commission
    position_size,    \* argument position_size
    balance,          \* local balance (cash)
    position,         \* local position (coins held)
    trades,           \* local list trades
    equity_curve,     \* local list equity_curve
    i,                \* loop variable of "for i in range(1, len(df))"
    pc,               \* control point: "loop", "metrics", "done", "error"
    result,           \* the BacktestResult returned (NoResult until then)
    sma_prices,       \* calculate_sma: argument prices, a sequence
    sma_period,       \* calculate_sma: argument period
    sma_result,       \* calculate_sma: the series returned (NoSeries until then)
    use_cache,        \* CryptoDataFetcher: self.use_cache
    cache_max_age_hours, \* CryptoDataFetcher: self.cache_max_age_hours
    cache_files,      \* the cache directory: file name -> stored data
    calls,            \* number of fetch_ohlcv calls made so far
    response          \* outcome of the latest fetch_ohlcv call

backtest == <<close, signal, initial_balance, commission, position_size,
              balance, position, trades, equity_curve, i, pc, result>>

indicator == <<sma_prices, sma_period, sma_result>>

fetcher == <<use_cache, cache_max_age_hours, cache_files, calls, response>>

vars == <<backtest, indicator, fetcher>>

inputs == <<close, signal, initial_balance, commission, position_size>>

----------------------------------------------------------------------------
(* Bounds of the model *)

MaxBars == 5
MaxBarsAny == 3
MaxSmaLen == 4
MaxSmaPeriod == 5
MaxCalls == 3

----------------------------------------------------------------------------
(* Exact arithmetic standing for the float operations of the source *)

Abs(n) == IF n < 0 THEN -n ELSE n

RECURSIVE Gcd(_, _)
Gcd(a, b) == IF b = 0 THEN a ELSE Gcd(b, a % b)

Zero == <<0, 1>>
One == <<1, 1>>

\* Results are kept in lowest terms; common factors are divided out before
\* multiplying, so that the intermediate products stay small.
RAdd(x, y) ==
    LET g == Gcd(x[2], y[2])
        t == x[1] * (y[2] \div g) + y[1] * (x[2] \div g)
        h == Gcd(Abs(t), g)
    IN  IF t = 0 THEN <<0, 1>> ELSE <<t \div h, (x[2] \div g) * (y[2] \div h)>>
RSub(x, y) == RAdd(x, <<-y[1], y[2]>>)
RMul(x, y) ==
    LET g1 == Gcd(Abs(x[1]), y[2])
        g2 == Gcd(Abs(y[1]), x[2])
    IN  <<(x[1] \div g1) * (y[1] \div g2), (x[2] \div g2) * (y[2] \div g1)>>
RDiv(x, y) == RMul(x, IF y[1] < 0 THEN <<-y[2], -y[1]>> ELSE <<y[2], y[1]>>)
RPos(x) == x[1] > 0
RNeg(x) == x[1] < 0

(* IEEE special values of the metrics: division by zero yields an infinity *)
(* or NaN instead of raising (numpy arithmetic inside pandas).  The sign   *)
(* of a zero is not modelled: every zero is +0.0.                          *)
NaN == <<0, 0>>
PosInf == <<1, 0>>
NegInf == <<-1, 0>>

IsNaN(x) == x = NaN
IsFinite(x) == x[2] # 0
Sign(x) == IF x[1] > 0 THEN 1 ELSE IF x[1] < 0 THEN -1 ELSE 0
InfOfSign(sg) == IF sg > 0 THEN PosInf ELSE IF sg < 0 THEN NegInf ELSE NaN

XNeg(x) == <<-x[1], x[2]>>

XAdd(x, y) ==
    IF IsNaN(x) \/ IsNaN(y) THEN NaN
    ELSE IF IsFinite(x) /\ IsFinite(y) THEN RAdd(x, y)
    ELSE IF IsFinite(x) THEN y
    ELSE IF IsFinite(y) THEN x
    ELSE IF x = y THEN x ELSE NaN

XSub(x, y) == XAdd(x, XNeg(y))

XMul(x, y) ==
    IF IsNaN(x) \/ IsNaN(y) THEN NaN
    ELSE IF IsFinite(x) /\ IsFinite(y) THEN RMul(x, y)
    ELSE InfOfSign(Sign(x) * Sign(y))

XDiv(x, y) ==
    IF IsNaN(x) \/ IsNaN(y) THEN NaN
    ELSE IF IsFinite(x) /\ IsFinite(y)
         THEN IF y[1] # 0 THEN RDiv(x, y) ELSE InfOfSign(Sign(x))
    ELSE IF IsFinite(x) THEN Zero
    ELSE IF IsFinite(y) THEN InfOfSign(Sign(x) * (IF Sign(y) < 0 THEN -1 ELSE 1))
    ELSE NaN

\* x < y; every comparison with NaN is false
XLt(x, y) ==
    IF IsNaN(x) \/ IsNaN(y) THEN FALSE
    ELSE IF ~IsFinite(x) /\ ~IsFinite(y) THEN x[1] < y[1]
    ELSE x[1] * y[2] < y[1] * x[2]

XAbs(x) == <<Abs(x[1]), x[2]>>

FromInt(n) == <<n, 1>>

----------------------------------------------------------------------------
(* Input domains *)

Prices == {One, <<2, 1>>}
Signals == {-1, 0, 1}
InitialBalances == {<<10000, 1>>}
Commissions == {Zero, <<1, 2>>}
PositionSizes == {<<1, 2>>, One}

LenDf == Cardinality(DOMAIN close)

\* No BacktestResult exists before the return statement
NoResult == [returned |-> FALSE]

\* No series exists before calculate_sma returns
NoSeries == [returned |-> FALSE]

\* Python's None, and a value that is not None, of an Optional[int]
None == <<>>
Some(n) == <<n>>

\* No fetch_ohlcv call has been made
NoResponse == [source |-> "none"]

\* calculate_sma is not called
IndicatorIdle ==
    /\ sma_prices = <<>>
    /\ sma_period = 1
    /\ sma_result = NoSeries

\* No CryptoDataFetcher is used; the cache directory is empty
FetcherIdle ==
    /\ use_cache = TRUE
    /\ cache_max_age_hours = None
    /\ cache_files = {}
    /\ calls = 0
    /\ response = NoResponse

\* run_backtest is not called
BacktestIdle ==
    /\ close = <<>>
    /\ signal = <<>>
    /\ initial_balance = <<10000, 1>>
    /\ commission = Zero
    /\ position_size = One
    /\ balance = initial_balance
    /\ position = Zero
    /\ trades = <<>>
    /\ equity_curve = <<initial_balance>>
    /\ i = 1
    /\ pc = "idle"
    /\ result = NoResult

----------------------------------------------------------------------------
(* run_backtest *)

Init ==
    /\ \E n \in 0..MaxBars :
          /\ close \in [0..(n - 1) -> Prices]
          /\ signal \in [0..(n - 1) -> Signals]
    /\ initial_balance \in InitialBalances
    /\ commission \in Commissions
    /\ position_size \in PositionSizes
    /\ balance = initial_balance
    /\ position = Zero
    /\ trades = <<>>
    /\ equity_curve = <<initial_balance>>
    /\ i = 1
    /\ pc = "loop"
    /\ result = NoResult
    /\ IndicatorIdle
    /\ FetcherIdle

(* Inputs the documented ranges exclude: a negative close, a commission  *)
(* of 1 and a position size of 2, next to frames of fewer than two bars. *)
AnyPrices == Prices \cup {<<-1, 1>>}
AnyCommissions == Commissions \cup {One}
AnyPositionSizes == PositionSizes \cup {<<2, 1>>}

InitAnyInput ==
    /\ \E n \in 0..MaxBarsAny :
          /\ close \in [0..(n - 1) -> AnyPrices]
          /\ signal \in [0..(n - 1) -> Signals]
    /\ initial_balance \in InitialBalances
    /\ commission \in AnyCommissions
    /\ position_size \in AnyPositionSizes
    /\ balance = initial_balance
    /\ position = Zero
    /\ trades = <<>>
    /\ equity_curve = <<initial_balance>>
    /\ i = 1
    /\ pc = "loop"
    /\ result = NoResult
    /\ IndicatorIdle
    /\ FetcherIdle

\* Variant reading the signal of the bar being traded (look-ahead)
PrevSignalSameBar(sig, k) == sig[k]

\* prev_signal = df.iloc[i-1]['signal']
PrevSignal(sig, k) == sig[k - 1]

\* current_price = df.iloc[i]['close']
CurrentPrice(cl, k) == cl[k]

\* if prev_signal == 1 and position == 0
BuyCond(prev_signal, pos) == prev_signal = 1 /\ pos = Zero

\* Variant selling on "position >= 0", i.e. also while flat
SellCondAlsoFlat(prev_signal, pos) == prev_signal = -1 /\ ~RNeg(pos)

\* elif prev_signal == -1 and position > 0
SellCond(prev_signal, pos) == prev_signal = -1 /\ RPos(pos)

\* trade_amount = balance * position_size
TradeAmount(bal, size) == RMul(bal, size)

\* position = trade_amount / current_price
BuyPosition(bal, size, price) == RDiv(TradeAmount(bal, size), price)

\* Variant charging no commission on entry
BuyBalanceNoCommission(bal, size, comm) == RSub(bal, TradeAmount(bal, size))

\* commission_cost = trade_amount * self.commission
\* balance -= (trade_amount + commission_cost)
BuyBalance(bal, size, comm) ==
    RSub(bal, RAdd(TradeAmount(bal, size), RMul(TradeAmount(bal, size), comm)))

\* Variant charging no commission on exit
SellBalanceNoCommission(bal, pos, price, comm) == RAdd(bal, RMul(pos, price))

\* trade_value = position * current_price
\* commission_cost = trade_value * self.commission
\* balance += (trade_value - commission_cost)
SellBalance(bal, pos, price, comm) ==
    RAdd(bal, RSub(RMul(pos, price), RMul(RMul(pos, price), comm)))

\* current_equity = balance + (position * current_price if position > 0 else 0)
CurrentEquity(bal, pos, price) ==
    RAdd(bal, IF RPos(pos) THEN RMul(pos, price) ELSE Zero)

TradeRecord(ts, type, price, qty, bal) ==
    [timestamp |-> ts, type |-> type, price |-> price,
     quantity |-> qty, balance |-> bal]

InLoop == pc = "loop" /\ i < LenDf

Buy ==
    /\ InLoop
    /\ BuyCond(PrevSignal(signal, i), position)
    /\ LET price == CurrentPrice(close, i)
           newPos == BuyPosition(balance, position_size, price)
           newBal == BuyBalance(balance, position_size, commission)
       IN  /\ position' = newPos
           /\ balance' = newBal
           /\ trades' = Append(trades, TradeRecord(i, "BUY", price, newPos, newBal))
           /\ equity_curve' = Append(equity_curve, CurrentEquity(newBal, newPos, price))
    /\ i' = i + 1
    /\ UNCHANGED <<indicator, fetcher, inputs, pc, result>>

Sell ==
    /\ InLoop
    /\ ~BuyCond(PrevSignal(signal, i), position)
    /\ SellCond(PrevSignal(signal, i), position)
    /\ LET price == CurrentPrice(close, i)
           newBal == SellBalance(balance, position, price, commission)
       IN  /\ balance' = newBal
           /\ trades' = Append(trades, TradeRecord(i, "SELL", price, position, newBal))
           /\ position' = Zero
           /\ equity_curve' = Append(equity_curve, CurrentEquity(newBal, Zero, price))
    /\ i' = i + 1
    /\ UNCHANGED <<indicator, fetcher, inputs, pc, result>>

NoTrade ==
    /\ InLoop
    /\ ~BuyCond(PrevSignal(signal, i), position)
    /\ ~SellCond(PrevSignal(signal, i), position)
    /\ equity_curve' = Append(equity_curve,
                              CurrentEquity(balance, position, CurrentPrice(close, i)))
    /\ i' = i + 1
    /\ UNCHANGED <<indicator, fetcher, inputs, balance, position, trades, pc, result>>

\* Variant liquidating at the first bar's close
FinalPriceFirstBar(cl) == cl[0]

\* final_price = df.iloc[-1]['close']
FinalPrice(cl) == cl[LenDf - 1]

\* Variant appending the liquidation balance as an extra point
SetLastAppends(seq, v) == Append(seq, v)

\* equity_curve[-1] = balance
SetLast(seq, v) == [seq EXCEPT ![Len(seq)] = v]

LoopDone == pc = "loop" /\ ~(i < LenDf)

\* Variant recording the liquidation as a SELL trade
ClosePositionRecordsTrade ==
    /\ LoopDone
    /\ RPos(position)
    /\ LET newBal == SellBalance(balance, position, FinalPrice(close), commission)
       IN  /\ balance' = newBal
           /\ equity_curve' = SetLast(equity_curve, newBal)
           /\ trades' = Append(trades, TradeRecord(LenDf - 1, "SELL",
                                                   FinalPrice(close), position, newBal))
    /\ pc' = "metrics"
    /\ UNCHANGED <<indicator, fetcher, inputs, position, i, result>>

\* if position > 0: close the open position at the end
ClosePosition ==
    /\ LoopDone
    /\ RPos(position)
    /\ LET newBal == SellBalance(balance, position, FinalPrice(close), commission)
       IN  /\ balance' = newBal
           /\ equity_curve' = SetLast(equity_curve, newBal)
    /\ pc' = "metrics"
    /\ UNCHANGED <<indicator, fetcher, inputs, position, trades, i, result>>

NoOpenPosition ==
    /\ LoopDone
    /\ ~RPos(position)
    /\ pc' = "metrics"
    /\ UNCHANGED <<indicator, fetcher, inputs, balance, position, trades, equity_curve, i, result>>

----------------------------------------------------------------------------
(* Metrics of run_backtest *)

AnnualizationDays == 252

\* s[1] + ... + s[k]
RECURSIVE SumTo(_, _)
SumTo(s, k) == IF k = 0 THEN Zero ELSE XAdd(SumTo(s, k - 1), s[k])

SumSeq(s) == SumTo(s, Len(s))

\* equity_series.pct_change(): e[k] / e[k-1] - 1 for every k but the first
PctChange(eq) ==
    [k \in 1..(Len(eq) - 1) |-> XSub(XDiv(eq[k + 1], eq[k]), One)]

\* .dropna(): NaN entries are removed, infinities are kept
DropNa(s) == SelectSeq(s, LAMBDA x : ~IsNaN(x))

\* returns = equity_series.pct_change().dropna()
Returns(eq) == DropNa(PctChange(eq))

\* returns.mean()
Mean(s) == XDiv(SumSeq(s), FromInt(Len(s)))

\* returns.std() squared: the sample variance (ddof = 1) around the given
\* mean, NaN for fewer than two entries
Variance(s, mean) ==
    IF Len(s) < 2 THEN NaN
    ELSE LET dev == [k \in 1..Len(s) |->
                        LET d == XSub(s[k], mean) IN XMul(d, d)]
         IN  XDiv(SumSeq(dev), FromInt(Len(s) - 1))

\* Variant guarding on "std >= 0"
StdPositiveOrZero(variance) == XLt(Zero, variance) \/ variance = Zero

\* returns.std() > 0, decided on the variance (std is its square root)
StdPositive(variance) == XLt(Zero, variance)

\* A real number whose square is rational, kept exactly as (sign, square):
\* mean / std * sqrt(252) has the sign of the mean and the square
\* mean^2 / variance * 252.
Ratio(mean, variance) ==
    [sign |-> Sign(mean),
     square |-> XMul(XDiv(XMul(mean, mean), variance), FromInt(AnnualizationDays))]

ZeroRatio == [sign |-> 0, square |-> Zero]

\* if len(returns) > 0 and returns.std() > 0: ... else: sharpe_ratio = 0.0
SharpeRatio(r) ==
    LET mean == Mean(r)
        variance == Variance(r, mean)
    IN  IF Len(r) > 0 /\ StdPositive(variance)
        THEN Ratio(mean, variance)
        ELSE ZeroRatio

\* cumulative = (1 + returns).cumprod()
RECURSIVE CumProd(_)
CumProd(r) ==
    IF r = <<>> THEN <<>>
    ELSE LET init == CumProd(SubSeq(r, 1, Len(r) - 1))
             prev == IF init = <<>> THEN One ELSE init[Len(init)]
         IN  Append(init, XMul(prev, XAdd(One, r[Len(r)])))

\* the larger of a running maximum and the next entry, skipping NaN
MaxSkipNa(m, x) ==
    IF IsNaN(x) THEN m
    ELSE IF IsNaN(m) THEN x
    ELSE IF XLt(m, x) THEN x ELSE m

\* the smaller of a running minimum and the next entry, skipping NaN
MinSkipNa(m, x) ==
    IF IsNaN(x) THEN m
    ELSE IF IsNaN(m) THEN x
    ELSE IF XLt(x, m) THEN x ELSE m

\* running_max = cumulative.expanding().max(): the maximum of the entries so
\* far that are not NaN (NaN while there is none)
RECURSIVE ExpandingMax(_)
ExpandingMax(c) ==
    IF c = <<>> THEN <<>>
    ELSE LET init == ExpandingMax(SubSeq(c, 1, Len(c) - 1))
             prev == IF init = <<>> THEN NaN ELSE init[Len(init)]
         IN  Append(init, MaxSkipNa(prev, c[Len(c)]))

\* drawdown = (cumulative - running_max) / running_max
Drawdown(r) ==
    LET cumulative == CumProd(r)
        running_max == ExpandingMax(cumulative)
    IN  [k \in 1..Len(r) |->
            XDiv(XSub(cumulative[k], running_max[k]), running_max[k])]

\* drawdown.min(): the minimum of the entries that are not NaN, NaN when
\* there is none (an empty series included)
RECURSIVE MinTo(_, _)
MinTo(d, k) == IF k = 0 THEN NaN ELSE MinSkipNa(MinTo(d, k - 1), d[k])

SeriesMin(d) == MinTo(d, Len(d))

\* max_drawdown = abs(drawdown.min()) * 100
MaxDrawdown(r) == XMul(XAbs(SeriesMin(Drawdown(r))), FromInt(100))

\* total_return = (balance / self.initial_balance - 1) * 100
\* (initial_balance is nonzero in every input domain of this model)
TotalReturn(bal, initial) == XMul(XSub(XDiv(bal, initial), One), FromInt(100))

\* buy_trades = trades_df[trades_df['type'] == 'BUY']
BuyTrades(tr) == SelectSeq(tr, LAMBDA t : t.type = "BUY")

\* sell_trades = trades_df[trades_df['type'] == 'SELL']
SellTrades(tr) == SelectSeq(tr, LAMBDA t : t.type = "SELL")

\* sell_trades[sell_trades['timestamp'] > buy['timestamp']]
MatchingSells(sells, buy) ==
    SelectSeq(sells, LAMBDA t : t.timestamp > buy.timestamp)

\* Variant pairing a buy with the last later sell
PickSellLast(matching) == matching[Len(matching)]

\* sell = matching_sells.iloc[0]
PickSell(matching) == matching[1]

\* profit = (sell['price'] - buy['price']) / buy['price']
Profit(buy, sell) == XDiv(XSub(sell.price, buy.price), buy.price)

\* the list profits built by the loop over buy_trades
RECURSIVE ProfitsOf(_, _)
ProfitsOf(buys, sells) ==
    IF buys = <<>> THEN <<>>
    ELSE LET init == ProfitsOf(SubSeq(buys, 1, Len(buys) - 1), sells)
             buy == buys[Len(buys)]
             matching == MatchingSells(sells, buy)
         IN  IF Len(matching) > 0
             THEN Append(init, Profit(buy, PickSell(matching)))
             ELSE init

Profits(tr) == ProfitsOf(BuyTrades(tr), SellTrades(tr))

\* win_rate = len([p for p in profits if p > 0]) / len(profits) * 100,
\* 0.0 when profits is empty
WinRateOf(profits) ==
    IF Len(profits) > 0
    THEN XMul(XDiv(FromInt(Len(SelectSeq(profits, LAMBDA q : XLt(Zero, q)))),
                   FromInt(Len(profits))),
              FromInt(100))
    ELSE Zero

\* Variant computing the ratio without any of the emptiness guards
WinRateNoGuards(tr) ==
    LET profits == Profits(tr)
    IN  XMul(XDiv(FromInt(Len(SelectSeq(profits, LAMBDA q : XLt(Zero, q)))),
                  FromInt(Len(profits))),
             FromInt(100))

\* the nested ifs around the win-rate computation
WinRate(tr) ==
    IF Len(tr) > 0
    THEN IF Len(BuyTrades(tr)) > 0 /\ Len(SellTrades(tr)) > 0
         THEN WinRateOf(Profits(tr))
         ELSE Zero
    ELSE Zero

\* return BacktestResult(...)
BacktestResult(bal, initial, eq, tr) ==
    LET returns == Returns(eq)
    IN
    [returned |-> TRUE,
     total_return |-> TotalReturn(bal, initial),
     sharpe_ratio |-> SharpeRatio(returns),
     max_drawdown |-> MaxDrawdown(returns),
     win_rate |-> WinRate(tr),
     total_trades |-> Len(tr),
     final_balance |-> bal,
     equity_curve |-> eq,
     trades |-> tr]

\* equity_series = pd.Series(equity_curve, index=df.index) ... return
ReturnResult ==
    /\ pc = "metrics"
    /\ Len(equity_curve) = LenDf
    /\ pc' = "done"
    /\ result' = BacktestResult(balance, initial_balance, equity_curve, trades)
    /\ UNCHANGED <<indicator, fetcher, inputs, balance, position, trades, equity_curve, i>>

\* pd.Series raises ValueError when the list and the index differ in length
SeriesLengthError ==
    /\ pc = "metrics"
    /\ Len(equity_curve) # LenDf
    /\ pc' = "error"
    /\ UNCHANGED <<indicator, fetcher, inputs, balance, position, trades, equity_curve, i, result>>

Next ==
    \/ Buy
    \/ Sell
    \/ NoTrade
    \/ ClosePosition
    \/ NoOpenPosition
    \/ ReturnResult
    \/ SeriesLengthError

Spec == Init /\ [][Next]_vars

\* run_backtest called on any input, valid or not
SpecAnyInput == InitAnyInput /\ [][Next]_vars

----------------------------------------------------------------------------
(* Properties of the simulation loop *)

\* C1: no look-ahead.  At every bar i >= 1 of the loop a trade is appended
\* exactly when the signal of bar i-1 is Buy and the engine is flat, or the
\* signal of bar i-1 is Sell and a position is held; its side is the side of
\* that lagged signal, its timestamp is bar i and its price is close[i].
\* Outside the loop (bar 0, liquidation, metrics) the trade log never changes,
\* so the signal of the final bar never causes a trade.
C1_NoLookAhead ==
    [][ IF pc = "loop" /\ i < LenDf
        THEN LET lag == signal[i - 1]
                 executes == \/ lag = 1 /\ position = Zero
                             \/ lag = -1 /\ RPos(position)
             IN  /\ i >= 1
                 /\ i - 1 < LenDf - 1
                 /\ IF executes
                    THEN /\ Len(trades') = Len(trades) + 1
                         /\ SubSeq(trades', 1, Len(trades)) = trades
                         /\ trades'[Len(trades')].timestamp = i
                         /\ trades'[Len(trades')].price = close[i]
                         /\ trades'[Len(trades')].type =
                                IF lag = 1 THEN "BUY" ELSE "SELL"
                    ELSE trades' = trades
        ELSE trades' = trades ]_vars

\* A finished run that traded on a lagged signal differing from the signal of
\* the traded bar, and whose final-bar Buy signal was left unexecuted while flat.
C1_Witness ==
    /\ pc = "done"
    /\ position = Zero
    /\ signal[LenDf - 1] = 1
    /\ \E n \in 1..Len(trades) :
          signal[trades[n].timestamp] # signal[trades[n].timestamp - 1]

\* C2: the cash balance is never negative, after any bar and after forced
\* liquidation.
C2_BalanceNonNegative == ~RNeg(balance)

\* C3: the trade log strictly alternates BUY, SELL, BUY, ... starting with a
\* BUY (entries at odd places of the log, exits at even places).
C3_TradesAlternate ==
    \A n \in 1..Len(trades) :
        trades[n].type = IF n % 2 = 1 THEN "BUY" ELSE "SELL"

\* C4: the position quantity is never negative, and no BUY records a holding
\* of size zero or less (which neither the Sell rule nor forced liquidation
\* would close).
C4_PositionNonNegative ==
    /\ ~RNeg(position)
    /\ \A n \in 1..Len(trades) :
          trades[n].type = "BUY" => RPos(trades[n].quantity)

\* C5: entry rule.  When the lagged signal is Buy and the engine is flat at
\* bar i, trade_amount = balance * position_size, the position becomes
\* trade_amount / close[i], the balance drops by trade_amount plus
\* trade_amount * commission, and exactly one BUY trade is appended with bar
\* i's timestamp, close[i], the new quantity and the resulting balance.
C5_EntryRule ==
    [][ (pc = "loop" /\ i < LenDf /\ signal[i - 1] = 1 /\ position = Zero) =>
        LET trade_amount == RMul(balance, position_size)
        IN  /\ position' = RDiv(trade_amount, close[i])
            /\ balance' = RSub(balance,
                               RAdd(trade_amount, RMul(trade_amount, commission)))
            /\ trades' = Append(trades,
                                [timestamp |-> i, type |-> "BUY",
                                 price |-> close[i], quantity |-> position',
                                 balance |-> balance']) ]_vars

\* The state right after an entry with a commission and a partial allocation.
C5_Witness ==
    /\ pc = "loop"
    /\ commission # Zero
    /\ position_size # One
    /\ RPos(position)
    /\ Len(trades) >= 1
    /\ trades[Len(trades)].type = "BUY"
    /\ trades[Len(trades)].timestamp = i - 1

\* C6: exit rule.  When the lagged signal is Sell and a position is held at
\* bar i, the balance grows by position * close[i] * (1 - commission), the
\* position becomes 0, and exactly one SELL trade is appended with bar i's
\* timestamp, close[i], the quantity sold and the resulting balance.
C6_ExitRule ==
    [][ (pc = "loop" /\ i < LenDf /\ signal[i - 1] = -1 /\ RPos(position)) =>
        /\ balance' = RAdd(balance,
                           RMul(RMul(position, close[i]), RSub(One, commission)))
        /\ position' = Zero
        /\ trades' = Append(trades,
                            [timestamp |-> i, type |-> "SELL",
                             price |-> close[i], quantity |-> position,
                             balance |-> balance']) ]_vars

\* The state right after an exit on which a commission was charged.
C6_Witness ==
    /\ pc = "loop"
    /\ commission # Zero
    /\ position = Zero
    /\ Len(trades) >= 2
    /\ trades[Len(trades)].type = "SELL"
    /\ trades[Len(trades)].timestamp = i - 1
    /\ RPos(trades[Len(trades)].quantity)

\* C7: a bar whose lagged signal does not match the state (Hold, Buy while
\* not flat, Sell while holding nothing) leaves balance, position and trade
\* log unchanged and appends exactly one equity-curve point.
C7_NoMatchNoChange ==
    [][ (/\ pc = "loop"
         /\ i < LenDf
         /\ \/ signal[i - 1] = 0
            \/ signal[i - 1] = 1 /\ position # Zero
            \/ signal[i - 1] = -1 /\ ~RPos(position)) =>
        /\ balance' = balance
        /\ position' = position
        /\ trades' = trades
        /\ Len(equity_curve') = Len(equity_curve) + 1
        /\ SubSeq(equity_curve', 1, Len(equity_curve)) = equity_curve
        /\ UNCHANGED inputs ]_vars

\* A Buy signal was lagged into bar i-1 while a position was held, and a Sell
\* signal was lagged into an earlier bar while flat; the only trade is the entry.
C7_Witness ==
    /\ pc = "loop"
    /\ i >= 4
    /\ signal[0] = -1
    /\ signal[i - 2] = 1
    /\ RPos(position)
    /\ Len(trades) = 1
    /\ trades[1].timestamp < i - 1

\* C8: forced liquidation.  A position still open after the last bar is
\* closed at the last bar's close with commission trade_value * commission;
\* the last equity-curve point is overwritten with the resulting balance, and
\* that point equals the final balance in the returned result.
C8_ForcedClose ==
    /\ [](pc \in {"metrics", "done"} /\ RPos(position) =>
              equity_curve[Len(equity_curve)] = balance)
    /\ [][ (pc = "loop" /\ ~(i < LenDf) /\ RPos(position)) =>
           LET trade_value == RMul(position, close[LenDf - 1])
               commission_cost == RMul(trade_value, commission)
           IN  /\ balance' = RAdd(balance, RSub(trade_value, commission_cost))
               /\ Len(equity_curve') = Len(equity_curve)
               /\ equity_curve'[Len(equity_curve)] = balance'
               /\ \A k \in 1..(Len(equity_curve) - 1) :
                     equity_curve'[k] = equity_curve[k]
               /\ trades' = trades ]_vars

\* A returned run that ended holding a position, paid a commission on the
\* liquidation, and whose first and last closes differ.
C8_Witness ==
    /\ pc = "done"
    /\ RPos(position)
    /\ commission # Zero
    /\ close[0] # close[LenDf - 1]
    /\ equity_curve[Len(equity_curve)] = balance

\* C9: the equity curve has exactly one point per input bar, whether or not
\* forced liquidation ran: the list handed to pd.Series for a non-empty frame
\* and the curve of every returned result have len(df) points.
C9_EquityLength ==
    /\ pc = "done" => Len(equity_curve) = LenDf
    /\ (pc = "metrics" /\ LenDf >= 1) => Len(equity_curve) = LenDf

\* A returned run of at least two bars in which forced liquidation ran.
C9_Witness ==
    /\ pc = "done"
    /\ LenDf >= 2
    /\ RPos(position)
    /\ Len(trades) >= 1
    /\ Len(equity_curve) = LenDf

\* C10: mark-to-market.  The point appended for a bar equals balance +
\* position * close of that bar, taken after that bar's trade; bar 0's point
\* equals initial_balance.  (While the loop is at bar i, the last point is
\* that of bar i-1 and balance and position are those after bar i-1.)
C10_MarkToMarket ==
    (pc = "loop" /\ LenDf >= 1) =>
        /\ Len(equity_curve) = i
        /\ equity_curve[1] = initial_balance
        /\ equity_curve[i] = RAdd(balance, RMul(position, close[i - 1]))

----------------------------------------------------------------------------
(* Properties of input handling *)

\* C11: a call with a series of fewer than two bars, a commission outside
\* [0,1) or a position size outside (0,1] is rejected before any simulation
\* step: the loop never advances, no trade is recorded and no
\* BacktestResult is returned.
C11_InvalidInputRejected ==
    LET invalid == \/ LenDf < 2
                   \/ RNeg(commission) \/ ~RNeg(RSub(commission, One))
                   \/ ~RPos(position_size) \/ RPos(RSub(position_size, One))
                   \/ ~RPos(initial_balance)
    IN  invalid => /\ i = 1
                   /\ trades = <<>>
                   /\ result = NoResult

\* C12: a Buy that would execute at a close that is zero or negative aborts
\* the run at that bar: no BUY is ever recorded at such a price, and no
\* BacktestResult carries one.
C12_NoBuyAtBadPrice ==
    /\ \A n \in 1..Len(trades) :
          trades[n].type = "BUY" => RPos(trades[n].price)
    /\ pc = "done" =>
          \A n \in 1..Len(result.trades) :
              result.trades[n].type = "BUY" => RPos(result.trades[n].price)

----------------------------------------------------------------------------
(* Properties of the metrics *)

\* Positions in the returned trade log of the BUY records
BuyIndices == {b \in 1..Len(result.trades) : result.trades[b].type = "BUY"}

\* Positions of the SELL records whose timestamp is strictly later than that
\* of the record at position b
LaterSells(b) ==
    {s \in 1..Len(result.trades) :
        /\ result.trades[s].type = "SELL"
        /\ result.trades[s].timestamp > result.trades[b].timestamp}

\* The SELL of earliest timestamp among LaterSells(b)
EarliestLaterSell(b) ==
    CHOOSE s \in LaterSells(b) :
        \A u \in LaterSells(b) :
            result.trades[s].timestamp <= result.trades[u].timestamp

PairedBuys == {b \in BuyIndices : LaterSells(b) # {}}

WinningBuys ==
    {b \in PairedBuys :
        XLt(result.trades[b].price, result.trades[EarliestLaterSell(b)].price)}

\* C13: in a returned result every BUY that has a SELL of strictly later
\* timestamp is paired with the earliest such SELL, no SELL is the partner of
\* two BUYs, the list of profits is that of these pairs in BUY order, and
\* win_rate = 100 * (pairs sold above the buy price) / (number of pairs).
C13_WinRatePairing ==
    pc = "done" =>
        /\ \A b1, b2 \in PairedBuys :
              b1 # b2 => EarliestLaterSell(b1) # EarliestLaterSell(b2)
        /\ Len(Profits(result.trades)) = Cardinality(PairedBuys)
        /\ \A b \in PairedBuys :
              LET n == Cardinality({c \in PairedBuys : c <= b})
                  sell == result.trades[EarliestLaterSell(b)]
              IN  Profits(result.trades)[n] =
                      XDiv(XSub(sell.price, result.trades[b].price),
                           result.trades[b].price)
        /\ PairedBuys # {} =>
              result.win_rate = XDiv(FromInt(100 * Cardinality(WinningBuys)),
                                     FromInt(Cardinality(PairedBuys)))

\* Two completed pairs, one sold above and one sold below its buy price
C13_Witness ==
    /\ pc = "done"
    /\ Cardinality(PairedBuys) = 2
    /\ Cardinality(WinningBuys) = 1
    /\ result.win_rate = <<50, 1>>

\* C14: when every signal is Hold the returned result has no trades,
\* final_balance = initial_balance, total_return = 0 and win_rate = 0; and
\* every run whose trade log holds no BUY followed by a later SELL reports
\* win_rate = 0; no run on a frame of at least one bar ends in an error.
C14_NoTradesNoPairs ==
    /\ (pc = "done" /\ \A k \in DOMAIN signal : signal[k] = 0) =>
          /\ result.total_trades = 0
          /\ result.trades = <<>>
          /\ result.final_balance = initial_balance
          /\ result.total_return = Zero
          /\ result.win_rate = Zero
    /\ (pc = "done" /\ PairedBuys = {}) => result.win_rate = Zero
    /\ pc = "error" => LenDf = 0

\* A run of at least three bars on an all-Hold signal series that returned
C14_Witness ==
    /\ pc = "done"
    /\ LenDf >= 3
    /\ \A k \in DOMAIN signal : signal[k] = 0
    /\ result.total_trades = 0
    /\ result.win_rate = Zero

\* C15: when the return series derived from the equity curve is empty, the
\* returned max_drawdown is 0.
C15_EmptyReturnsZeroDrawdown ==
    (pc = "done" /\ Returns(result.equity_curve) = <<>>) =>
        result.max_drawdown = Zero

\* The sample standard deviation of r is zero (all entries equal) or
\* undefined (fewer than two entries, or an entry that is not finite)
NoSpread(r) ==
    \/ Len(r) < 2
    \/ \E k \in 1..Len(r) : ~IsFinite(r[k])
    \/ \A j, k \in 1..Len(r) : r[j] = r[k]

\* C16 as stated: sharpe_ratio = 0 when the return series is empty or its
\* sample standard deviation is 0, and mean / stdev * sqrt(252) in every
\* other case.
C16_SharpeAsStated ==
    pc = "done" =>
        LET r == Returns(result.equity_curve)
            mean == Mean(r)
            variance == Variance(r, mean)
        IN  IF Len(r) = 0 \/ variance = Zero
            THEN result.sharpe_ratio = ZeroRatio
            ELSE result.sharpe_ratio = Ratio(mean, variance)

\* C16: sharpe_ratio is never NaN or infinite; it is 0 when the return
\* series has fewer than two entries or its sample standard deviation is
\* zero or undefined, and mean / stdev * sqrt(252) in every other case.
C16_SharpeDegenerate ==
    pc = "done" =>
        LET r == Returns(result.equity_curve)
            mean == Mean(r)
        IN  /\ IsFinite(result.sharpe_ratio.square)
            /\ NoSpread(r) => result.sharpe_ratio = ZeroRatio
            /\ ~NoSpread(r) =>
                  /\ result.sharpe_ratio = Ratio(mean, Variance(r, mean))
                  /\ result.sharpe_ratio.sign = Sign(SumSeq(r))

\* A returned run whose equity never moved over at least three bars
C16_Witness ==
    /\ pc = "done"
    /\ Len(Returns(result.equity_curve)) >= 2
    /\ \A k \in 1..Len(result.equity_curve) :
          result.equity_curve[k] = initial_balance
    /\ result.sharpe_ratio = ZeroRatio

\* C19: a run that ends holding a position returns a trade log to which the
\* liquidation added nothing: the log ends in a BUY dated inside the loop and
\* has one more BUY than SELL, win_rate is that of the log without this last
\* BUY, while final_balance is the balance after that BUY plus the proceeds
\* of selling its quantity at the last close net of commission, total_return
\* is computed from it and it is the last point of the equity curve.
C19_LiquidationNotATrade ==
    (pc = "done" /\ RPos(position)) =>
        LET log == result.trades
            last == log[Len(log)]
            proceeds == RMul(RMul(last.quantity, close[LenDf - 1]),
                             RSub(One, commission))
        IN  /\ result.total_trades = Len(log)
            /\ Len(log) > 0
            /\ last.type = "BUY"
            /\ last.timestamp \in 1..(LenDf - 1)
            /\ last.quantity = position
            /\ Len(BuyTrades(log)) = Len(SellTrades(log)) + 1
            /\ Cardinality(PairedBuys) = Len(SellTrades(log))
            /\ Len(log) \notin PairedBuys
            /\ result.win_rate = WinRate(SubSeq(log, 1, Len(log) - 1))
            /\ result.final_balance = RAdd(last.balance, proceeds)
            /\ result.total_return =
                  RMul(RSub(RDiv(result.final_balance, initial_balance), One),
                       FromInt(100))
            /\ result.equity_curve[LenDf] = result.final_balance

\* A returned run that completed one pair and was liquidated out of a
\* second position at a price other than its entry price
C19_Witness ==
    /\ pc = "done"
    /\ RPos(position)
    /\ Len(result.trades) = 3
    /\ result.trades[3].price # close[LenDf - 1]
    /\ result.final_balance # result.trades[3].balance

----------------------------------------------------------------------------
(* calculate_sma *)

SmaPrices == {FromInt(1), FromInt(2), FromInt(4)}

InitSma ==
    /\ \E n \in 0..MaxSmaLen : sma_prices \in [1..n -> SmaPrices]
    /\ sma_period \in 1..MaxSmaPeriod
    /\ sma_result = NoSeries
    /\ BacktestIdle
    /\ FetcherIdle

\* The window sum that rolling() carries along the series: after entry k it
\* has added prices[k] and removed the entry that left the window
RECURSIVE RollingSum(_, _, _)
RollingSum(prices, period, k) ==
    IF k = 0 THEN Zero
    ELSE LET added == XAdd(RollingSum(prices, period, k - 1), prices[k])
         IN  IF k > period THEN XSub(added, prices[k - period]) ELSE added

\* Number of observations in the window that ends at entry k
WindowCount(period, k) == IF k > period THEN period ELSE k

\* Variant with min_periods = 1: a mean over the entries seen so far
RollingMeanPartial(prices, period, k) ==
    XDiv(RollingSum(prices, period, k), FromInt(WindowCount(period, k)))

\* Entry k of prices.rolling(window=period).mean(); min_periods defaults to
\* the window, so a window with fewer observations yields NaN
RollingMean(prices, period, k) ==
    IF WindowCount(period, k) >= period
    THEN XDiv(RollingSum(prices, period, k), FromInt(WindowCount(period, k)))
    ELSE NaN

\* return prices.rolling(window=period).mean()
calculate_sma(prices, period) ==
    [k \in 1..Len(prices) |-> RollingMean(prices, period, k)]

CallSma ==
    /\ sma_result = NoSeries
    /\ sma_result' = [returned |-> TRUE,
                      series |-> calculate_sma(sma_prices, sma_period)]
    /\ UNCHANGED <<backtest, fetcher, sma_prices, sma_period>>

NextSma == CallSma

SpecSma == InitSma /\ [][NextSma]_vars

\* C17: the series calculate_sma returns has the length of prices; counting
\* entries from 0 as the source does, its first period-1 entries are NaN and
\* entry k >= period-1 is the arithmetic mean of prices[k-period+1 .. k].
\* (Sequences are indexed from 1 here: entry k of the source is n = k + 1.)
C17_SmaWindowMean ==
    sma_result.returned =>
        /\ Len(sma_result.series) = Len(sma_prices)
        /\ \A n \in 1..Len(sma_prices) :
              IF n - 1 < sma_period - 1
              THEN IsNaN(sma_result.series[n])
              ELSE sma_result.series[n] =
                       XDiv(SumSeq(SubSeq(sma_prices, n - sma_period + 1, n)),
                            FromInt(sma_period))

\* A returned series with an undefined prefix and at least two means over
\* windows of at least two prices that are not all equal
C17_Witness ==
    /\ sma_result.returned
    /\ sma_period >= 2
    /\ Len(sma_prices) >= sma_period + 1
    /\ sma_prices[1] # sma_prices[sma_period + 1]
    /\ IsNaN(sma_result.series[1])
    /\ sma_result.series[sma_period] # sma_result.series[sma_period + 1]

----------------------------------------------------------------------------
(* CryptoDataFetcher.fetch_ohlcv and its file cache *)

(* A str is a sequence of tokens; none of the tokens of a symbol or a      *)
(* timeframe below contains the separator "_".                             *)
Symbols == {<<"BTC/USDT">>, <<"ETH/USDT">>}
Timeframes == {<<"1d">>, <<"1h">>}
Sinces == {None, Some(0), Some(5)}
Limits == {None, Some(5)}

Requests == [symbol : Symbols, timeframe : Timeframes, since : Sinces, limit : Limits]

\* exchange_name: str = 'binance'
ExchangeName == <<"binance">>

\* "if since:" / "if limit:" / "if max_age_hours:" -- None and 0 are falsy
Truthy(opt) == opt # None /\ opt[1] # 0

\* str(n) of an int
Str(n) == <<ToString(n)>>

\* "_".join(parts)
RECURSIVE Join(_)
Join(parts) ==
    IF parts = <<>> THEN <<>>
    ELSE IF Len(parts) = 1 THEN parts[1]
    ELSE parts[1] \o <<"_">> \o Join(Tail(parts))

\* hashlib.md5(...).hexdigest(): taken to be free of collisions
Md5(str) == <<"md5(">> \o str \o <<")">>

\* key_parts of generate_cache_key
KeyParts(symbol, timeframe, since, limit) ==
    <<symbol, timeframe>>
        \o (IF Truthy(since) THEN <<Str(since[1])>> ELSE <<>>)
        \o (IF Truthy(limit) THEN <<Str(limit[1])>> ELSE <<>>)

generate_cache_key(symbol, timeframe, since, limit) ==
    Md5(Join(KeyParts(symbol, timeframe, since, limit)))

\* filename = f"{exchange}_{cache_key}.json"
get_cache_path(cache_key, exchange) ==
    exchange \o <<"_">> \o cache_key \o <<".json">>

CachePath(req) ==
    get_cache_path(generate_cache_key(req.symbol, req.timeframe, req.since, req.limit),
                   ExchangeName)

\* load_from_cache found nothing it can return
Miss == [hit |-> FALSE]

\* load_from_cache: None when the file does not exist or, with a maximum
\* age set, is older than that age; the stored data otherwise
load_from_cache(path, max_age_hours, expired) ==
    IF \A f \in cache_files : f.path # path THEN Miss
    ELSE IF Truthy(max_age_hours) /\ expired THEN Miss
    ELSE [hit |-> TRUE, data |-> (CHOOSE f \in cache_files : f.path = path).data]

\* save_to_cache: the file is written over whatever it held
save_to_cache(path, data) ==
    {f \in cache_files : f.path # path} \cup {[path |-> path, data |-> data]}

\* What self.exchange.fetch_ohlcv(symbol, timeframe, since, limit) answers:
\* the candles of that request
ExchangeData(req) == [candles_of |-> req]

\* cached_data as fetch_ohlcv sees it
CachedData(req, expired) ==
    IF use_cache
    THEN load_from_cache(CachePath(req), cache_max_age_hours, expired)
    ELSE Miss

InitFetcher ==
    /\ use_cache \in BOOLEAN
    /\ cache_max_age_hours \in {None, Some(1)}
    /\ cache_files = {}
    /\ calls = 0
    /\ response = NoResponse
    /\ BacktestIdle
    /\ IndicatorIdle

\* fetch_ohlcv returns the frame built from cached_data
ServeFromCache ==
    /\ calls < MaxCalls
    /\ \E req \in Requests, expired \in BOOLEAN :
          /\ CachedData(req, expired).hit
          /\ response' = [source |-> "cache", request |-> req,
                          data |-> CachedData(req, expired).data]
    /\ calls' = calls + 1
    /\ UNCHANGED <<backtest, indicator, use_cache, cache_max_age_hours, cache_files>>

\* fetch_ohlcv asks the exchange, saves the answer and returns it; a failed
\* write of the cache file only prints a warning
FetchFromExchange ==
    /\ calls < MaxCalls
    /\ \E req \in Requests, expired \in BOOLEAN, written \in BOOLEAN :
          /\ ~CachedData(req, expired).hit
          /\ response' = [source |-> "exchange", request |-> req,
                          data |-> ExchangeData(req)]
          /\ cache_files' = IF use_cache /\ written
                            THEN save_to_cache(CachePath(req), ExchangeData(req))
                            ELSE cache_files
    /\ calls' = calls + 1
    /\ UNCHANGED <<backtest, indicator, use_cache, cache_max_age_hours>>

\* the exchange call raises and fetch_ohlcv raises in turn
FetchFails ==
    /\ calls < MaxCalls
    /\ \E req \in Requests, expired \in BOOLEAN :
          /\ ~CachedData(req, expired).hit
          /\ response' = [source |-> "error", request |-> req]
    /\ calls' = calls + 1
    /\ UNCHANGED <<backtest, indicator, use_cache, cache_max_age_hours, cache_files>>

NextFetcher ==
    \/ ServeFromCache
    \/ FetchFromExchange
    \/ FetchFails

SpecFetcher == InitFetcher /\ [][NextFetcher]_vars

\* C18: a call answered from the cache returns the candles that were fetched
\* for the very request of that call (same symbol, timeframe, since, limit).
C18_CacheServesOwnRequest ==
    response.source = "cache" => response.data = ExchangeData(response.request)

====
